---- MODULE Spec2Model ----
(***************************************************************************)
(* Model of pay_period.py: PayPeriod, Vacation, AccruementPeriod and the   *)
(* PTOAccruement engine (next_period, get_final_pto).                      *)
(*                                                                         *)
(* Calendar dates are day numbers (integers); a timedelta of n days is the *)
(* integer n.  Balances and hours are integers (e.g. hundredths of hours). *)
(***************************************************************************)
EXTENDS Integers, Sequences, FiniteSets, TLC

\* ------------------------------------------------------------------------
\* Bounds of the model
\* ------------------------------------------------------------------------
\* Segment dates (start_date, end_date) are 0..MaxDay; the starting day and
\* the vacation dates reach past every grace boundary: 0..MaxDay + MaxPeriodLength.
MaxDay == 1
\* period_length of a segment is 0..MaxPeriodLength.
MaxPeriodLength == 2
\* The engine is constructed with 1..MaxSegments segments.
MaxSegments == 2
\* get_final_pto is called with 0..MaxVacations vacations.
MaxVacations == 2
\* Cap on the number of loop iterations of get_final_pto.  A run whose
\* period lengths are all positive makes at most MaxDay + MaxPeriodLength + 1
\* successful calls, so the cap only cuts runs that never end.
MaxSteps == MaxDay + MaxPeriodLength + 2

Days == 0..MaxDay
RunDays == 0..(MaxDay + MaxPeriodLength)
PeriodLengths == 0..MaxPeriodLength
AccrualRates == {3, 5}
VacationHours == {1, 2}
StartingPtos == {10}

\* ------------------------------------------------------------------------
\* PayPeriod
\* ------------------------------------------------------------------------
PayPeriod(hours_per_period, period_length) ==
    [pto_accruement |-> hours_per_period, period_length |-> period_length]

\* Faulty variant of add_pto: the balance is returned without the accrual.
add_pto_NoAccrual(self, current_pto, current_date) ==
    <<current_pto, current_date + self.period_length>>

\* Faulty variant of add_pto: the date goes back by one period.
add_pto_Backwards(self, current_pto, current_date) ==
    <<current_pto + self.pto_accruement, current_date - self.period_length>>

\* Faulty variant of add_pto: the date is returned as it came.
add_pto_NoAdvance(self, current_pto, current_date) ==
    <<current_pto + self.pto_accruement, current_date>>

\* add_pto returns (current_pto, current_date) after one accrual step.
add_pto(self, current_pto, current_date) ==
    <<current_pto + self.pto_accruement, current_date + self.period_length>>

\* ------------------------------------------------------------------------
\* Vacation.  The id field stands for the identity of the Python object
\* (Vacation defines no __eq__, so list.remove compares by identity).
\* ------------------------------------------------------------------------
Vacation(id, start_date, hours_length) ==
    [id |-> id, start_date |-> start_date, length |-> hours_length]

\* Faulty variant of Vacation_lt: an equal date counts as earlier.
Vacation_lt_OrEqual(self, other) == self.start_date <= other.start_date

\* Vacation.__lt__ with another Vacation
Vacation_lt(self, other) == self.start_date < other.start_date

\* Vacation.__lt__ with a datetime.date
Vacation_lt_date(self, other) == self.start_date < other

\* ------------------------------------------------------------------------
\* AccruementPeriod
\* ------------------------------------------------------------------------
AccruementPeriod(period_length, start_date, end_date, accruement) ==
    [period_length |-> period_length, start_date |-> start_date,
     end_date |-> end_date, accruement |-> accruement]

\* ------------------------------------------------------------------------
\* PTOAccruement.next_period, as a function of the engine's fields.
\* raised = TRUE stands for PastDateException.
\* ------------------------------------------------------------------------
\* Faulty variant of PastBuffer: no extra period after end_date.
PastBuffer_NoBuffer(t, end, pay_period) == t > end

\* Faulty variant of PastBuffer: the boundary day itself counts as past.
PastBuffer_Inclusive(t, end, pay_period) == t >= end + pay_period.period_length

\* The test of line 107: today is past the segment's end plus one period.
PastBuffer(t, end, pay_period) == t > end + pay_period.period_length

\* Faulty variant of next_period: the segment is popped before the length test, so
\* the last segment goes too when the schedule is exhausted.
RECURSIVE next_period_PopsLast(_, _, _, _)
next_period_PopsLast(ps, p, t, pto_use) ==
    LET period == ps[1]
        end == period.end_date
        pay_period == PayPeriod(period.accruement, period.period_length)
    IN  IF PastBuffer(t, end, pay_period)
        THEN IF Len(ps) = 1
             THEN [raised |-> TRUE, periods |-> Tail(ps), pto |-> p, today |-> t,
                   ret |-> p]
             ELSE next_period_PopsLast(Tail(ps), p, t, pto_use)
        ELSE LET r == add_pto(pay_period, p, t)
             IN  [raised |-> FALSE, periods |-> ps, pto |-> r[1] - pto_use,
                  today |-> r[2], ret |-> r[1] - pto_use]

\* Faulty variant of next_period: pto_use is subtracted before the date test,
\* so a call that raises has already deducted.
RECURSIVE next_period_DeductsFirst(_, _, _, _)
next_period_DeductsFirst(ps, p, t, pto_use) ==
    LET period == ps[1]
        end == period.end_date
        pay_period == PayPeriod(period.accruement, period.period_length)
    IN  IF PastBuffer(t, end, pay_period)
        THEN IF Len(ps) = 1
             THEN [raised |-> TRUE, periods |-> ps, pto |-> p - pto_use, today |-> t,
                   ret |-> p - pto_use]
             ELSE next_period_DeductsFirst(Tail(ps), p, t, pto_use)
        ELSE LET r == add_pto(pay_period, p, t)
             IN  [raised |-> FALSE, periods |-> ps, pto |-> r[1] - pto_use,
                  today |-> r[2], ret |-> r[1] - pto_use]

\* Faulty variant of next_period: the accrual step is taken before the date
\* test, so a call that raises has already moved pto and today.
RECURSIVE next_period_StepsFirst(_, _, _, _)
next_period_StepsFirst(ps, p, t, pto_use) ==
    LET period == ps[1]
        end == period.end_date
        pay_period == PayPeriod(period.accruement, period.period_length)
        r == add_pto(pay_period, p, t)
    IN  IF PastBuffer(t, end, pay_period)
        THEN IF Len(ps) = 1
             THEN [raised |-> TRUE, periods |-> ps, pto |-> r[1], today |-> r[2],
                   ret |-> r[1]]
             ELSE next_period_StepsFirst(Tail(ps), p, t, pto_use)
        ELSE [raised |-> FALSE, periods |-> ps, pto |-> r[1] - pto_use,
              today |-> r[2], ret |-> r[1] - pto_use]

\* Faulty variant of next_period: a segment is also left behind once today
\* has reached the next segment's start_date.
RECURSIVE next_period_SwitchAtStart(_, _, _, _)
next_period_SwitchAtStart(ps, p, t, pto_use) ==
    LET period == ps[1]
        end == period.end_date
        pay_period == PayPeriod(period.accruement, period.period_length)
    IN  IF PastBuffer(t, end, pay_period) \/ (Len(ps) > 1 /\ t >= ps[2].start_date)
        THEN IF Len(ps) = 1
             THEN [raised |-> TRUE, periods |-> ps, pto |-> p, today |-> t, ret |-> p]
             ELSE next_period_SwitchAtStart(Tail(ps), p, t, pto_use)
        ELSE LET r == add_pto(pay_period, p, t)
             IN  [raised |-> FALSE, periods |-> ps, pto |-> r[1] - pto_use,
                  today |-> r[2], ret |-> r[1] - pto_use]

RECURSIVE next_period(_, _, _, _)
next_period(ps, p, t, pto_use) ==
    LET period == ps[1]
        end == period.end_date
        pay_period == PayPeriod(period.accruement, period.period_length)
    IN  IF PastBuffer(t, end, pay_period)
        THEN IF Len(ps) = 1
             THEN [raised |-> TRUE, periods |-> ps, pto |-> p, today |-> t, ret |-> p]
             ELSE next_period(Tail(ps), p, t, pto_use)
        ELSE LET r == add_pto(pay_period, p, t)
             IN  [raised |-> FALSE, periods |-> ps, pto |-> r[1] - pto_use,
                  today |-> r[2], ret |-> r[1] - pto_use]

\* ------------------------------------------------------------------------
\* Helpers of get_final_pto
\* ------------------------------------------------------------------------
\* Faulty variant of Remove: the consumed vacation stays in the list.
Remove_Keeps(s, x) == s

\* list.remove(x): drops the first element equal to x.
RECURSIVE Remove(_, _)
Remove(s, x) ==
    IF s = <<>> THEN s
    ELSE IF Head(s) = x THEN Tail(s)
    ELSE <<Head(s)>> \o Remove(Tail(s), x)

\* Faulty variant of sorted: the list is scanned in the caller's order.
sorted_Unsorted(s) == s

\* sorted(): a stable sort that compares with Vacation.__lt__ only.
RECURSIVE Insert(_, _)
Insert(s, v) ==
    IF s = <<>> THEN <<v>>
    ELSE IF Vacation_lt(v, Head(s)) THEN <<v>> \o s
    ELSE <<Head(s)>> \o Insert(Tail(s), v)

RECURSIVE sorted(_)
sorted(s) ==
    IF s = <<>> THEN <<>>
    ELSE Insert(sorted(SubSeq(s, 1, Len(s) - 1)), s[Len(s)])

\* The for loop over `vacations`.  The list iterator holds an index i into the
\* list it walks (1-based here); the body removes from that same list.
RECURSIVE ScanVacations(_, _, _, _, _)
ScanVacations(vs, i, used, taken, t) ==
    IF i > Len(vs)
    THEN [vacations |-> vs, used_pto |-> used, taken |-> taken]
    ELSE LET date == vs[i]
         IN  IF Vacation_lt_date(date, t)
             THEN ScanVacations(Remove(vs, date), i + 1, used + date.length,
                                Append(taken, date.id), t)
             ELSE [vacations |-> vs, used_pto |-> used, taken |-> taken]

\* ------------------------------------------------------------------------
\* State
\* ------------------------------------------------------------------------
VARIABLES
    periods,            \* self.periods
    pto,                \* self.pto
    today,              \* self.today
    in_vacations,       \* the caller's list handed to get_final_pto
    vacations,          \* local `vacations` of get_final_pto (sorted copy)
    intermediate_ptos,  \* local `intermediate_ptos`
    used_pto,           \* local `used_pto`
    pc,                 \* "idle", "scan", "call", "done"
    init_periods,       \* history: the list the engine was constructed with
    starting_pto,       \* history: constructor argument
    starting_day,       \* history: constructor argument
    taken,              \* history: ids consumed by the last for loop
    log                 \* history: one record per call of next_period

vars == <<periods, pto, today, in_vacations, vacations, intermediate_ptos,
          used_pto, pc, init_periods, starting_pto, starting_day, taken, log>>

\* Faulty variant of caller_periods: the constructor keeps a copy, so the
\* caller's list stays as it was handed in.
caller_periods_Copy == init_periods

\* The list object the caller handed to the constructor.  `self.periods =
\* periods` binds the same object, so the caller's list is the engine's list.
caller_periods == periods

\* ------------------------------------------------------------------------
\* Inputs
\* ------------------------------------------------------------------------
SegmentShapes == PeriodLengths \X Days \X AccrualRates

\* Segments are laid out as in the example of the source: each segment after
\* the first starts on its predecessor's end_date.  Neither the order of the
\* dates nor the lengths are validated by the constructor.
MakePeriods(f, n, first_start) ==
    [i \in 1..n |->
        AccruementPeriod(f[i][1], IF i = 1 THEN first_start ELSE f[i - 1][2],
                         f[i][2], f[i][3])]

SegmentLists ==
    UNION {{MakePeriods(f, n, s) : f \in [1..n -> SegmentShapes], s \in Days} :
              n \in 1..MaxSegments}

VacationLists ==
    UNION {{[i \in 1..n |-> Vacation(i, f[i][1], f[i][2])] :
               f \in [1..n -> RunDays \X VacationHours]} : n \in 0..MaxVacations}

\* ------------------------------------------------------------------------
\* Init: PTOAccruement.__init__
\* ------------------------------------------------------------------------
Init ==
    /\ periods \in SegmentLists
    /\ pto \in StartingPtos
    /\ today \in RunDays
    /\ init_periods = periods
    /\ starting_pto = pto
    /\ starting_day = today
    /\ in_vacations = <<>>
    /\ vacations = <<>>
    /\ intermediate_ptos = <<>>
    /\ used_pto = 0
    /\ taken = <<>>
    /\ log = <<>>
    /\ pc = "idle"

\* ------------------------------------------------------------------------
\* get_final_pto
\* ------------------------------------------------------------------------
\* Entry: intermediate_ptos = [], vacations = sorted(vacations).
GetFinalPtoStart ==
    /\ pc = "idle"
    /\ \E vs \in VacationLists :
          /\ in_vacations' = vs
          /\ vacations' = sorted(vs)
    /\ intermediate_ptos' = <<>>
    /\ pc' = "scan"
    /\ UNCHANGED <<periods, pto, today, used_pto, init_periods, starting_pto,
                   starting_day, taken, log>>

\* Top of the while loop: used_pto = 0, then the for loop.
GetFinalPtoScan ==
    /\ pc = "scan"
    /\ Len(intermediate_ptos) < MaxSteps
    /\ LET r == ScanVacations(vacations, 1, 0, <<>>, today)
       IN  /\ vacations' = r.vacations
           /\ used_pto' = r.used_pto
           /\ taken' = r.taken
    /\ pc' = "call"
    /\ UNCHANGED <<periods, pto, today, in_vacations, intermediate_ptos,
                   init_periods, starting_pto, starting_day, log>>

\* Faulty variant of GetFinalPtoCall: the except branch appends the balance too.
GetFinalPtoCall_AppendsOnFailure ==
    /\ pc = "call"
    /\ LET r == next_period(periods, pto, today, used_pto)
       IN  /\ periods' = r.periods
           /\ pto' = r.pto
           /\ today' = r.today
           /\ log' = Append(log, [taken |-> taken, used |-> used_pto,
                                  today |-> today, periods |-> periods,
                                  ok |-> ~r.raised])
           /\ pc' = IF r.raised THEN "done" ELSE "scan"
           /\ intermediate_ptos' = Append(intermediate_ptos, r.ret)
    /\ UNCHANGED <<in_vacations, vacations, used_pto, init_periods,
                   starting_pto, starting_day, taken>>

\* intermediate_ptos.append(self.next_period(used_pto)), or the except branch.
GetFinalPtoCall ==
    /\ pc = "call"
    /\ LET r == next_period(periods, pto, today, used_pto)
       IN  /\ periods' = r.periods
           /\ pto' = r.pto
           /\ today' = r.today
           /\ log' = Append(log, [taken |-> taken, used |-> used_pto,
                                  today |-> today, periods |-> periods,
                                  ok |-> ~r.raised])
           /\ IF r.raised
              THEN /\ pc' = "done"
                   /\ UNCHANGED intermediate_ptos
              ELSE /\ pc' = "scan"
                   /\ intermediate_ptos' = Append(intermediate_ptos, r.ret)
    /\ UNCHANGED <<in_vacations, vacations, used_pto, init_periods,
                   starting_pto, starting_day, taken>>

\* get_final_pto as a function of the engine's fields and the caller's list:
\* the while loop, cut after MaxSteps iterations (ended = FALSE).
RECURSIVE GetFinalPtoLoop(_, _, _, _, _)
GetFinalPtoLoop(ps, p, t, vs, ptos) ==
    IF Len(ptos) >= MaxSteps
    THEN [ended |-> FALSE, pto |-> p, intermediate_ptos |-> ptos,
          periods |-> ps, today |-> t]
    ELSE LET s == ScanVacations(vs, 1, 0, <<>>, t)
             r == next_period(ps, p, t, s.used_pto)
         IN  IF r.raised
             THEN [ended |-> TRUE, pto |-> r.pto, intermediate_ptos |-> ptos,
                   periods |-> r.periods, today |-> r.today]
             ELSE GetFinalPtoLoop(r.periods, r.pto, r.today, s.vacations,
                                  Append(ptos, r.ret))

get_final_pto(ps, p, t, vs) == GetFinalPtoLoop(ps, p, t, sorted(vs), <<>>)

Next == GetFinalPtoStart \/ GetFinalPtoScan \/ GetFinalPtoCall

Spec == Init /\ [][Next]_vars

\* ------------------------------------------------------------------------
\* Vocabulary of the properties
\* ------------------------------------------------------------------------
\* Grace boundary of a segment: end_date + period_length.
GraceBoundary(seg) == seg.end_date + seg.period_length

LastSegment(ps) == ps[Len(ps)]

\* Sum of `length` over the vacations of vs dated strictly before day t.
RECURSIVE SumDue(_, _)
SumDue(vs, t) ==
    IF vs = <<>> THEN 0
    ELSE (IF Head(vs).start_date < t THEN Head(vs).length ELSE 0) + SumDue(Tail(vs), t)

\* Sum of `length` over the vacations of vs whose id is in the sequence ids.
RECURSIVE SumOfIds(_, _)
SumOfIds(vs, ids) ==
    IF vs = <<>> THEN 0
    ELSE (IF \E k \in DOMAIN ids : ids[k] = Head(vs).id THEN Head(vs).length ELSE 0)
         + SumOfIds(Tail(vs), ids)

RECURSIVE SumAll(_)
SumAll(vs) == IF vs = <<>> THEN 0 ELSE Head(vs).length + SumAll(Tail(vs))

\* How often vacation id was consumed by a for loop whose used_pto reached next_period.
RECURSIVE TimesTaken(_, _)
TimesTaken(lg, id) ==
    IF lg = <<>> THEN 0
    ELSE Cardinality({k \in DOMAIN Head(lg).taken : Head(lg).taken[k] = id})
         + TimesTaken(Tail(lg), id)

\* Total of the pto_used of the successful calls.
RECURSIVE TotalDeducted(_)
TotalDeducted(lg) ==
    IF lg = <<>> THEN 0
    ELSE (IF Head(lg).ok THEN Head(lg).used ELSE 0) + TotalDeducted(Tail(lg))

\* Vacation id was part of the pto_used of a successful call.
Deducted(id) ==
    \E k \in DOMAIN log : log[k].ok /\ \E j \in DOMAIN log[k].taken : log[k].taken[j] = id

AllPositive(ps) == \A k \in DOMAIN ps : ps[k].period_length >= 1

Chronological(ps) ==
    /\ \A k \in DOMAIN ps : ps[k].start_date <= ps[k].end_date
    /\ \A k \in 1..(Len(ps) - 1) : ps[k].end_date <= ps[k + 1].start_date

\* The first segment of ps whose grace boundary is not strictly before day t.
HasActive(ps, t) == \E k \in DOMAIN ps : t <= GraceBoundary(ps[k])

ActiveIndex(ps, t) ==
    CHOOSE k \in DOMAIN ps :
        /\ t <= GraceBoundary(ps[k])
        /\ \A j \in 1..(k - 1) : t > GraceBoundary(ps[j])

ActiveSegment(ps, t) == ps[ActiveIndex(ps, t)]

\* Total accrued by the successful calls.
RECURSIVE TotalAccrued(_)
TotalAccrued(lg) ==
    IF lg = <<>> THEN 0
    ELSE (IF Head(lg).ok
          THEN ActiveSegment(Head(lg).periods, Head(lg).today).accruement
          ELSE 0) + TotalAccrued(Tail(lg))

Without(s, k) == SubSeq(s, 1, k - 1) \o SubSeq(s, k + 1, Len(s))

\* ------------------------------------------------------------------------
\* C1: in every iteration the pto_used handed to next_period is the sum of
\* the lengths of ALL remaining vacations dated strictly before today, and
\* no vacation dated before today stays in the working list.
\* ------------------------------------------------------------------------
C1_UsedIsSumOfAllDue ==
    [][(pc = "scan" /\ pc' = "call") =>
          /\ used_pto' = SumDue(vacations, today)
          /\ \A k \in DOMAIN vacations' : ~(vacations'[k].start_date < today)]_vars

\* ------------------------------------------------------------------------
\* C2: no vacation's hours are subtracted more than once: every vacation is
\* part of the pto_used of at most one call of next_period, the pto_used of
\* a call is the sum of the lengths of the vacations consumed for it, and
\* the total deducted never exceeds the sum of all vacation lengths.
\* ------------------------------------------------------------------------
C2_NoDoubleDeduction ==
    LET lg == IF pc = "call"
              THEN Append(log, [taken |-> taken, used |-> used_pto, ok |-> TRUE])
              ELSE log
    IN  /\ \A k \in DOMAIN in_vacations : TimesTaken(lg, in_vacations[k].id) <= 1
        /\ \A k \in DOMAIN lg : lg[k].used = SumOfIds(in_vacations, lg[k].taken)
        /\ TotalDeducted(lg) <= SumAll(in_vacations)
        /\ pto = starting_pto + TotalAccrued(log) - TotalDeducted(log)

\* Two vacations were consumed by two different calls and the run has ended.
C2_Witness ==
    /\ pc = "done"
    /\ Len(in_vacations) = 2
    /\ \E i, j \in DOMAIN log :
          /\ i # j
          /\ log[i].ok /\ log[j].ok
          /\ log[i].taken # <<>> /\ log[j].taken # <<>>

\* ------------------------------------------------------------------------
\* C3: with positive period lengths, chronologically ordered segments and a
\* starting_day not after the last segment's grace boundary, every vacation
\* dated on or before the last segment's end_date has been deducted by a
\* successful call when get_final_pto returns.
\* ------------------------------------------------------------------------
C3_FinalPeriodUsageNotLost ==
    (/\ pc = "done"
     /\ AllPositive(init_periods)
     /\ Chronological(init_periods)
     /\ starting_day <= GraceBoundary(LastSegment(init_periods)))
    => \A k \in DOMAIN in_vacations :
          in_vacations[k].start_date <= LastSegment(init_periods).end_date
          => Deducted(in_vacations[k].id)

\* ------------------------------------------------------------------------
\* C4: when at least one period is processed, the first trajectory entry is
\* starting_pto + the active segment's rate - the lengths of all vacations
\* dated strictly before starting_day.
\* ------------------------------------------------------------------------
C4_FirstEntryDeductsEarlierVacations ==
    intermediate_ptos # <<>>
    => intermediate_ptos[1] =
          starting_pto + ActiveSegment(init_periods, starting_day).accruement
          - SumDue(in_vacations, starting_day)

\* ------------------------------------------------------------------------
\* C5
\* ------------------------------------------------------------------------
\* The run of get_final_pto on the constructed engine with the k-th vacation
\* left out of the caller's list gives the balance and trajectory of this run.
SameWithout(k) ==
    LET r == get_final_pto(init_periods, starting_pto, starting_day,
                           Without(in_vacations, k))
    IN  /\ r.ended
        /\ r.pto = pto
        /\ r.intermediate_ptos = intermediate_ptos

\* C5 as claimed: a vacation dated after the LAST segment's grace boundary
\* is never deducted, and the run with it equals the run without it.  Stated
\* here for chronologically ordered segment lists only.
C5_AfterLastGraceNeverDeducted ==
    (pc = "done" /\ Chronological(init_periods))
    => \A k \in DOMAIN in_vacations :
          in_vacations[k].start_date > GraceBoundary(LastSegment(init_periods))
          => /\ ~Deducted(in_vacations[k].id)
             /\ SameWithout(k)

\* C5 as amended: a vacation dated after the grace boundary of EVERY segment
\* the engine was constructed with is never deducted, and the run with it
\* gives the same trajectory and final balance as the run without it.
C5_AfterEveryGraceNeverDeducted ==
    pc = "done"
    => \A k \in DOMAIN in_vacations :
          (\A j \in DOMAIN init_periods :
              in_vacations[k].start_date > GraceBoundary(init_periods[j]))
          => /\ ~Deducted(in_vacations[k].id)
             /\ SameWithout(k)

\* A finished run with a successful call, an earlier vacation that was
\* deducted, and a vacation past every grace boundary that the failed last
\* iteration removed from the working list.
C5_Witness ==
    /\ pc = "done"
    /\ \E k \in DOMAIN in_vacations :
          /\ \A j \in DOMAIN init_periods :
                in_vacations[k].start_date > GraceBoundary(init_periods[j])
          /\ \E i \in DOMAIN log[Len(log)].taken :
                log[Len(log)].taken[i] = in_vacations[k].id
    /\ \E k \in DOMAIN in_vacations : Deducted(in_vacations[k].id)

\* ------------------------------------------------------------------------
\* C6
\* ------------------------------------------------------------------------
\* C6 as claimed: a call of next_period raises PastDateException if and only
\* if today is strictly after the grace boundary of the LAST segment of the
\* remaining list.  Stated here for chronologically ordered segment lists
\* with positive period lengths only.
C6_ExhaustedIffPastLastGrace ==
    (Chronological(init_periods) /\ AllPositive(init_periods))
    => \A k \in DOMAIN log :
          (~log[k].ok) <=>
              (log[k].today > GraceBoundary(LastSegment(log[k].periods)))

\* C6 as amended: a call of next_period raises PastDateException if and only
\* if today is strictly after the grace boundary of EVERY remaining segment;
\* in every other state the call succeeds.
C6_ExhaustedIffPastEveryGrace ==
    \A k \in DOMAIN log :
        (~log[k].ok) <=>
            (\A j \in DOMAIN log[k].periods :
                log[k].today > GraceBoundary(log[k].periods[j]))

\* A call that raised with two segments of different period_length left, and
\* an earlier call that succeeded.
C6_Witness ==
    \E i, k \in DOMAIN log :
        /\ log[i].ok
        /\ ~log[k].ok
        /\ Len(log[k].periods) = 2
        /\ log[k].periods[1].period_length # log[k].periods[2].period_length

\* ------------------------------------------------------------------------
\* C7
\* ------------------------------------------------------------------------
CeilDiv(a, b) == (a + b - 1) \div b

\* One segment with period_length >= 1, no vacations, the engine started on
\* the segment's start_date, not after its grace boundary; the run has ended.
SingleSegmentRun ==
    /\ pc = "done"
    /\ Len(init_periods) = 1
    /\ in_vacations = <<>>
    /\ init_periods[1].period_length >= 1
    /\ starting_day = init_periods[1].start_date
    /\ starting_day <= GraceBoundary(init_periods[1])

\* C7 as claimed: the trajectory has
\* ceil((end_date + period_length - start_date) / period_length) entries.
C7_EntriesAreCeil ==
    SingleSegmentRun
    => Len(intermediate_ptos) =
          CeilDiv(GraceBoundary(init_periods[1]) - init_periods[1].start_date,
                  init_periods[1].period_length)

\* C7 as amended: the trajectory has
\* floor((end_date + period_length - start_date) / period_length) + 1
\* entries: the ceil when the quotient is not whole, one more when it is.
C7_EntriesAreFloorPlusOne ==
    SingleSegmentRun
    => LET span == GraceBoundary(init_periods[1]) - init_periods[1].start_date
           len == init_periods[1].period_length
       IN  /\ Len(intermediate_ptos) = (span \div len) + 1
           /\ Len(intermediate_ptos) =
                 CeilDiv(span, len) + (IF span % len = 0 THEN 1 ELSE 0)

\* A single-segment run whose span is a whole number of periods, with at
\* least two entries.
C7_Witness ==
    /\ SingleSegmentRun
    /\ (GraceBoundary(init_periods[1]) - init_periods[1].start_date)
          % init_periods[1].period_length = 0
    /\ Len(intermediate_ptos) >= 2

\* ------------------------------------------------------------------------
\* C8: a successful next_period(pto_used) applies exactly one step of the
\* first remaining segment whose grace boundary is not strictly before
\* today: pto grows by that segment's rate minus pto_used, today by that
\* segment's period_length, and the value returned (appended to the
\* trajectory) is the new pto.
\* ------------------------------------------------------------------------
C8_SuccessfulStep ==
    [][(pc = "call" /\ pc' = "scan") =>
          /\ HasActive(periods, today)
          /\ LET seg == ActiveSegment(periods, today)
             IN  /\ pto' = pto + seg.accruement - used_pto
                 /\ today' = today + seg.period_length
                 /\ periods'[1] = seg
          /\ intermediate_ptos' = Append(intermediate_ptos, pto')]_vars

\* A successful call with a deduction whose active segment was the second of
\* the remaining list, the two segments differing in rate and length.
C8_Witness ==
    \E k \in DOMAIN log :
        /\ log[k].ok
        /\ log[k].used > 0
        /\ Len(log[k].periods) = 2
        /\ ActiveIndex(log[k].periods, log[k].today) = 2
        /\ log[k].periods[1].accruement # log[k].periods[2].accruement
        /\ log[k].periods[1].period_length # log[k].periods[2].period_length
        /\ pc = "scan"

\* ------------------------------------------------------------------------
\* C9: today only moves forward: every step leaves today unchanged or is a
\* successful call of next_period that adds the active segment's
\* period_length; today never decreases.
\* ------------------------------------------------------------------------
C9_TodayMovesForward ==
    [][/\ today' >= today
       /\ \/ today' = today /\ ~(pc = "call" /\ pc' = "scan")
          \/ /\ pc = "call" /\ pc' = "scan"
             /\ HasActive(periods, today)
             /\ today' = today + ActiveSegment(periods, today).period_length]_vars

\* today has advanced by two different period lengths in one run.
C9_Witness ==
    \E i, k \in DOMAIN log :
        /\ i < k
        /\ log[i].ok /\ log[k].ok
        /\ ActiveSegment(log[i].periods, log[i].today).period_length >= 1
        /\ ActiveSegment(log[k].periods, log[k].today).period_length >= 1
        /\ ActiveSegment(log[i].periods, log[i].today).period_length
              # ActiveSegment(log[k].periods, log[k].today).period_length
        /\ today > starting_day

\* ------------------------------------------------------------------------
\* C10: periods is never empty and always a suffix of the constructed list;
\* segments leave only from the front, only when today is strictly after
\* their grace boundary and another segment remains, and never come back.
\* ------------------------------------------------------------------------
IsSuffix(s, full) ==
    /\ Len(s) <= Len(full)
    /\ s = SubSeq(full, Len(full) - Len(s) + 1, Len(full))

C10_PeriodsNonEmptySuffix ==
    /\ [](periods # <<>> /\ IsSuffix(periods, init_periods))
    /\ [][periods' # periods =>
             /\ Len(periods') >= 1
             /\ Len(periods') < Len(periods)
             /\ IsSuffix(periods', periods)
             /\ \A j \in 1..(Len(periods) - Len(periods')) :
                   today > GraceBoundary(periods[j])]_vars

\* The first of two segments has been discarded and the run went on.
C10_Witness ==
    /\ Len(init_periods) = 2
    /\ Len(periods) = 1
    /\ pc = "scan"
    /\ \E k \in DOMAIN log : log[k].ok /\ Len(log[k].periods) = 2

\* ------------------------------------------------------------------------
\* C11
\* ------------------------------------------------------------------------
\* The statements of get_final_pto run one after the other without waiting:
\* once the call has started, its loop keeps taking steps.  Whether the
\* caller calls at all is not assumed.
\* The engine never reads start_date, so the first segment's is fixed here.
FairInit == Init /\ periods[1].start_date = 0

FairSpec ==
    /\ FairInit
    /\ [][Next]_vars
    /\ WF_vars(GetFinalPtoScan)
    /\ WF_vars(GetFinalPtoCall)

\* C11 as claimed: get_final_pto terminates for every segment list,
\* period_length 0 included.  Whether next_period raises, and the periods
\* and today it leaves, depend on (periods, today) alone, so a run that
\* terminates never calls next_period twice from the same (periods, today):
\* the second call would be followed by the same calls as the first, for ever.
C11_TerminatesForEveryLength ==
    \A i, k \in DOMAIN log :
        (i < k /\ log[i].ok /\ log[k].ok)
        => <<log[i].periods, log[i].today>> # <<log[k].periods, log[k].today>>

\* C11 as amended: when every period_length is at least 1, a started
\* get_final_pto eventually receives the exhaustion signal and returns.
C11_TerminatesForPositiveLengths ==
    [](((pc = "scan" \/ pc = "call") /\ AllPositive(init_periods))
          => <>(pc = "done"))

\* A run over two segments of positive lengths that made at least two
\* successful calls, consumed a vacation, and returned.
C11_Witness ==
    /\ pc = "done"
    /\ AllPositive(init_periods)
    /\ Len(init_periods) = 2
    /\ Len(intermediate_ptos) >= 2
    /\ in_vacations # <<>>

\* ------------------------------------------------------------------------
\* C12: the trajectory has one entry per successful call of next_period, in
\* call order, each the balance that call returned; the failed attempt
\* appends nothing, so a run whose first attempt is exhausted returns an
\* empty trajectory.
\* ------------------------------------------------------------------------
RECURSIVE OkCount(_)
OkCount(lg) ==
    IF lg = <<>> THEN 0 ELSE (IF Head(lg).ok THEN 1 ELSE 0) + OkCount(Tail(lg))

C12_OneEntryPerSuccessfulCall ==
    /\ Len(intermediate_ptos) = OkCount(log)
    /\ \A k \in DOMAIN intermediate_ptos :
          /\ log[k].ok
          /\ intermediate_ptos[k] =
                starting_pto + TotalAccrued(SubSeq(log, 1, k))
                - TotalDeducted(SubSeq(log, 1, k))
    /\ pc = "done" =>
          /\ Len(log) = Len(intermediate_ptos) + 1
          /\ ~log[Len(log)].ok
          /\ intermediate_ptos # <<>> => pto = intermediate_ptos[Len(intermediate_ptos)]
    /\ (pc = "done" /\ \A j \in DOMAIN init_periods :
                          starting_day > GraceBoundary(init_periods[j]))
          => intermediate_ptos = <<>> /\ pto = starting_pto

\* A returned run with two entries whose failed last attempt carried a
\* pto_used that was not appended.
C12_Witness ==
    /\ pc = "done"
    /\ Len(intermediate_ptos) = 2
    /\ log[Len(log)].used > 0
    /\ log[1].used > 0

\* ------------------------------------------------------------------------
\* C13: the working sequence is a permutation of the caller's vacations in
\* non-decreasing start_date order, equal dates in input order (the id of a
\* vacation is its input position); so once a vacation of the working
\* sequence is not before today, none after it is.
\* ------------------------------------------------------------------------
StableDateOrder(vs) ==
    \A i, j \in DOMAIN vs :
        i < j => \/ vs[i].start_date < vs[j].start_date
                 \/ /\ vs[i].start_date = vs[j].start_date
                    /\ vs[i].id < vs[j].id

IsPermutation(vs, ws) ==
    /\ Len(vs) = Len(ws)
    /\ \A k \in DOMAIN ws : Cardinality({i \in DOMAIN vs : vs[i] = ws[k]}) = 1

C13_WorkingSequenceSorted ==
    /\ pc # "idle" => StableDateOrder(vacations)
    /\ (pc = "scan" /\ log = <<>>) => IsPermutation(vacations, in_vacations)
    /\ pc = "call" =>
          \A i, j \in DOMAIN vacations :
              (i < j /\ ~(vacations[i].start_date < today))
              => ~(vacations[j].start_date < today)

\* The caller's list was not in date order; the for loop has consumed the
\* earlier vacation and stopped at the later one, which is not due.
C13_Witness ==
    /\ pc = "call"
    /\ Len(in_vacations) = 2
    /\ in_vacations[1].start_date > in_vacations[2].start_date
    /\ taken = <<2>>
    /\ vacations = <<in_vacations[1]>>
    /\ ~(vacations[1].start_date < today)

\* ------------------------------------------------------------------------
\* C14: when next_period raises PastDateException, pto and today are as
\* they were before the call and periods holds exactly one segment, the
\* last of the list the call found; the pto_used of the failed call is not
\* subtracted.
\* ------------------------------------------------------------------------
C14_FailedCallChangesNothingButPeriods ==
    [][(pc = "call" /\ pc' = "done") =>
          /\ pto' = pto
          /\ today' = today
          /\ periods' = <<LastSegment(periods)>>
          /\ intermediate_ptos' = intermediate_ptos]_vars

\* A failed call that was handed a pto_used and found two segments.
C14_Witness ==
    /\ pc = "done"
    /\ log[Len(log)].used > 0
    /\ Len(log[Len(log)].periods) = 2
    /\ Len(periods) = 1
    /\ Len(log) >= 2

\* ------------------------------------------------------------------------
\* C15: once get_final_pto has returned, the engine is exhausted for good:
\* a further call on the same engine, with any vacation list, returns the
\* same final balance and an empty trajectory and leaves pto, today and
\* periods as they are.  (The positive period lengths of the claim are what
\* makes the first call return; the formula covers every returned call.)
\* ------------------------------------------------------------------------
C15_ExhaustedForGood ==
    pc = "done"
    => \A vs \in VacationLists :
          LET r == get_final_pto(periods, pto, today, vs)
          IN  /\ r.ended
              /\ r.pto = pto
              /\ r.intermediate_ptos = <<>>
              /\ r.today = today
              /\ r.periods = periods

\* A call over two segments of positive lengths has returned after two
\* successful calls of next_period, with a vacation still in the past.
C15_Witness ==
    /\ pc = "done"
    /\ AllPositive(init_periods)
    /\ Len(init_periods) = 2
    /\ Len(intermediate_ptos) >= 2
    /\ \E vs \in VacationLists : vs # <<>> /\ vs[1].start_date < today
    /\ pto # starting_pto

\* ------------------------------------------------------------------------
\* C16: a segment's start_date has no influence: an engine whose segments
\* differ from this one's in the start_date fields only, started with the
\* same balance and day and given the same vacations, ends with the same
\* trajectory, balance and today; each step applies the rate of the first
\* segment whose grace boundary is not passed, whatever the start dates.
\* ------------------------------------------------------------------------
WithStartDates(ps, alt) == [k \in DOMAIN ps |-> [ps[k] EXCEPT !.start_date = alt[k]]]

\* The loop has stopped: it returned, or it was cut at MaxSteps.
RunOver == pc = "done" \/ (pc = "scan" /\ Len(intermediate_ptos) = MaxSteps)

C16_StartDateHasNoInfluence ==
    /\ RunOver =>
          \A alt \in [DOMAIN init_periods -> Days] :
              LET r == get_final_pto(WithStartDates(init_periods, alt),
                                     starting_pto, starting_day, in_vacations)
              IN  /\ r.ended = (pc = "done")
                  /\ r.pto = pto
                  /\ r.intermediate_ptos = intermediate_ptos
                  /\ r.today = today
    /\ \A k \in DOMAIN intermediate_ptos :
          intermediate_ptos[k] =
              (IF k = 1 THEN starting_pto ELSE intermediate_ptos[k - 1])
              + ActiveSegment(log[k].periods, log[k].today).accruement - log[k].used

\* A returned run in which the first segment's rate was applied on a day on
\* or after the second segment's start_date, the two rates differing.
C16_Witness ==
    /\ pc = "done"
    /\ Len(init_periods) = 2
    /\ init_periods[1].accruement # init_periods[2].accruement
    /\ \E k \in DOMAIN log :
          /\ log[k].ok
          /\ Len(log[k].periods) = 2
          /\ ActiveIndex(log[k].periods, log[k].today) = 1
          /\ log[k].today >= init_periods[2].start_date
          /\ log[k].today > init_periods[1].end_date

\* ------------------------------------------------------------------------
\* C17: get_final_pto leaves the caller's vacations list unchanged while it
\* sorts and drains its own copy; the caller's segment list is the engine's
\* list and loses the front segments next_period discards; a run changes no
\* engine field but pto, today and periods, and periods only by dropping
\* front segments (no segment is altered).
\* ------------------------------------------------------------------------
C17_CallerListsAndFrame ==
    [][/\ (pc # "idle" => in_vacations' = in_vacations)
       /\ (pc = "scan" => /\ Len(vacations') <= Len(vacations)
                          /\ \A k \in DOMAIN vacations' :
                                \E j \in DOMAIN vacations : vacations[j] = vacations'[k]
                          /\ periods' = periods /\ pto' = pto /\ today' = today
                          /\ caller_periods' = caller_periods)
       /\ (pc = "idle" => /\ vacations' = sorted(in_vacations')
                          /\ periods' = periods /\ pto' = pto /\ today' = today
                          /\ caller_periods' = caller_periods)
       /\ (pc = "call" =>
              /\ vacations' = vacations
              /\ IsSuffix(periods', periods)
              /\ caller_periods' =
                    IF HasActive(caller_periods, today)
                    THEN SubSeq(caller_periods, ActiveIndex(caller_periods, today),
                                Len(caller_periods))
                    ELSE <<LastSegment(caller_periods)>>)
      ]_vars

\* A returned run whose caller handed in two vacations out of date order, both
\* drained from the working copy, and two segments of which the caller's list
\* has lost the first.
C17_Witness ==
    /\ pc = "done"
    /\ Len(in_vacations) = 2
    /\ in_vacations[1].start_date > in_vacations[2].start_date
    /\ vacations = <<>>
    /\ Len(init_periods) = 2
    /\ caller_periods = <<init_periods[2]>>
    /\ intermediate_ptos # <<>>

====
